---- MODULE Spec2Model ----
(***************************************************************************)
(* A model of inexpress.js, the HTTP server built on Node's net module     *)
(* that the article "Building a HTTP Server From Scratch" develops:        *)
(* Request, Response, App (route table, one middleware slot) and the       *)
(* static-file middleware.                                                 *)
(*                                                                         *)
(* Texts the code inspects character by character (request chunks, paths,  *)
(* methods, route keys, file names) are sequences of one-character         *)
(* strings.  Texts the code only concatenates (header names and values,    *)
(* bodies, what is written to a socket) are TLA+ strings, joined with \o.  *)
(***************************************************************************)
EXTENDS Integers, Sequences, FiniteSets, TLC

(***************************************************************************)
(* Bounds of the model.                                                    *)
(***************************************************************************)
\* longest request path given to normalizePath on its own
MaxPathLen == 4
\* most calls made on a Response on its own
MaxOps == 4
\* most calls of App.get
MaxGets == 2
\* most calls of App.use
MaxUses == 2
\* most data chunks received, over all connections
MaxChunks == 2
\* most characters of a query string or fragment after its "?" or "#"
MaxSuffixTail == 1
\* most use calls and chunks, for the runs that look at requests in flight
FlightUses == 1
FlightChunks == 2
MaxRawLen == 5
\* the same three, for the runs that look at route registration
RouteGets == 2
RouteUses == 1
RouteChunks == 1
\* the same three, for the runs that look at the middleware slot
SlotGets == 1
SlotUses == 2
SlotChunks == 1

(***************************************************************************)
(* JavaScript string primitives, on sequences of characters.               *)
(***************************************************************************)
UpperChars == <<"A","B","C","D","E","F","G","H","I","J","K","L","M",
                "N","O","P","Q","R","S","T","U","V","W","X","Y","Z">>
LowerChars == <<"a","b","c","d","e","f","g","h","i","j","k","l","m",
                "n","o","p","q","r","s","t","u","v","w","x","y","z">>

\* the lowercase of each uppercase letter, the uppercase of each lowercase one
LowerOf == [c \in {UpperChars[i] : i \in 1..26} |->
              LowerChars[CHOOSE i \in 1..26 : UpperChars[i] = c]]
UpperOf == [c \in {LowerChars[i] : i \in 1..26} |->
              UpperChars[CHOOSE i \in 1..26 : LowerChars[i] = c]]

toLowerChar(c) == IF c \in DOMAIN LowerOf THEN LowerOf[c] ELSE c

toUpperChar(c) == IF c \in DOMAIN UpperOf THEN UpperOf[c] ELSE c

\* String.prototype.toLowerCase
toLowerCase(s) == [i \in 1..Len(s) |-> toLowerChar(s[i])]

\* String.prototype.toUpperCase
toUpperCase(s) == [i \in 1..Len(s) |-> toUpperChar(s[i])]

\* String.prototype.endsWith, for a one-character suffix
endsWith(s, c) == Len(s) > 0 /\ s[Len(s)] = c

\* String.prototype.startsWith, for a one-character prefix
startsWith(s, c) == Len(s) > 0 /\ s[1] = c

\* the least index of s from i on that holds a character of set cs,
\* Len(s) + 1 if none
RECURSIVE IndexFrom(_, _, _)
IndexFrom(s, cs, i) ==
  IF i > Len(s) THEN Len(s) + 1
  ELSE IF s[i] \in cs THEN i
  ELSE IndexFrom(s, cs, i + 1)

IndexOfAny(s, cs) == IndexFrom(s, cs, 1)

\* the greatest index of s up to i that holds character c, 0 if none
RECURSIVE LastIndexUpTo(_, _, _)
LastIndexUpTo(s, c, i) ==
  IF i < 1 THEN 0
  ELSE IF s[i] = c THEN i
  ELSE LastIndexUpTo(s, c, i - 1)

LastIndexOf(s, c) == LastIndexUpTo(s, c, Len(s))

\* String.prototype.split(sep) for a one-character separator: the empty
\* string splits into one empty piece
RECURSIVE split(_, _)
split(s, sep) ==
  LET i == IndexOfAny(s, {sep})
  IN  IF i > Len(s) THEN <<s>>
      ELSE <<SubSeq(s, 1, i - 1)>> \o split(SubSeq(s, i + 1, Len(s)), sep)

\* Array.prototype.join(sep) for a one-character separator
RECURSIVE join(_, _)
join(parts, sep) ==
  IF Len(parts) = 0 THEN <<>>
  ELSE IF Len(parts) = 1 THEN parts[1]
  ELSE parts[1] \o <<sep>> \o join(Tail(parts), sep)

\* the value undefined; as text it reads "undefined" (string concatenation)
Undefined == <<"undefined">>

\* the conversion to text that the + operator applies to its operand
StringOf(v) ==
  IF v = Undefined THEN <<"u","n","d","e","f","i","n","e","d">> ELSE v

(***************************************************************************)
(* new URL(href).pathname for an http URL (WHATWG URL parser): the         *)
(* authority runs to the first "/", "?" or "#"; the path runs from there   *)
(* to the first "?" or "#"; "." and ".." segments are resolved; an empty   *)
(* path reads "/".  The characters of the model need no percent-encoding   *)
(* and make no invalid host.                                               *)
(***************************************************************************)
URLBase == <<"h","t","t","p",":","/","/","1","2","7",".","0",".","0",".","1">>

SchemeLen == 7

\* the path state of the parser, segment k of segs onto the path so far
RECURSIVE URLPathState(_, _, _)
URLPathState(segs, k, acc) ==
  IF k > Len(segs) THEN acc
  ELSE LET seg  == segs[k]
           last == (k = Len(segs))
           pop  == IF Len(acc) = 0 THEN acc ELSE SubSeq(acc, 1, Len(acc) - 1)
       IN  IF seg = <<".", ".">>
           THEN URLPathState(segs, k + 1, IF last THEN Append(pop, <<>>) ELSE pop)
           ELSE IF seg = <<".">>
           THEN URLPathState(segs, k + 1, IF last THEN Append(acc, <<>>) ELSE acc)
           ELSE URLPathState(segs, k + 1, Append(acc, seg))

\* the URL path serializer: "/" and the segment, for each segment
RECURSIVE URLPathSerialize(_)
URLPathSerialize(path) ==
  IF Len(path) = 0 THEN <<>>
  ELSE <<"/">> \o path[1] \o URLPathSerialize(Tail(path))

URLpathname(href) ==
  LET rest  == SubSeq(href, SchemeLen + 1, Len(href))
      a     == IndexOfAny(rest, {"/", "?", "#"})
      after == SubSeq(rest, a, Len(rest))
      q     == IndexOfAny(after, {"?", "#"})
      raw   == SubSeq(after, 1, q - 1)
      body  == IF startsWith(raw, "/") THEN Tail(raw) ELSE raw
  IN  URLPathSerialize(URLPathState(split(body, "/"), 1, <<>>))

(***************************************************************************)
(* App.normalizePath and App.createRouteKey                                *)
(***************************************************************************)
normalizePath(reqPath) ==
  LET p == toLowerCase(URLpathname(URLBase \o StringOf(reqPath)))
  IN  IF endsWith(p, "/") THEN SubSeq(p, 1, Len(p) - 1) ELSE p

\* a slip: the method is not uppercased
createRouteKey_NoUpper(method, reqPath) ==
  method \o <<" ">> \o normalizePath(reqPath)

createRouteKey(method, reqPath) ==
  toUpperCase(method) \o <<" ">> \o normalizePath(reqPath)

(***************************************************************************)
(* The status table.                                                       *)
(***************************************************************************)
HTTP_STATUS_CODES ==
  (200 :> "OK") @@ (301 :> "Moved Permanently") @@
  (404 :> "Not Found") @@ (500 :> "Internal Server Error")

(***************************************************************************)
(* A net.Socket, as far as the server uses it: the calls made on it in    *)
(* order, what write() accepted, how often end() was called, and whether   *)
(* write() was called after end() (Node refuses the data and raises        *)
(* ERR_STREAM_WRITE_AFTER_END).                                            *)
(***************************************************************************)
NewSocket == [calls |-> <<>>, writes |-> <<>>, ends |-> 0, err |-> FALSE]

SockWrite(s, data) ==
  IF s.ends > 0
  THEN [s EXCEPT !.calls = Append(@, <<"write", data>>), !.err = TRUE]
  ELSE [s EXCEPT !.calls = Append(@, <<"write", data>>), !.writes = Append(@, data)]

RECURSIVE SockWriteAll(_, _)
SockWriteAll(s, datas) ==
  IF Len(datas) = 0 THEN s
  ELSE SockWriteAll(SockWrite(s, Head(datas)), Tail(datas))

SockEnd(s) == [s EXCEPT !.calls = Append(@, <<"end">>), !.ends = @ + 1]

(***************************************************************************)
(* class Response.  headers is the object this.headers: its entries in the *)
(* order Object.entries lists them, which for the header names of the      *)
(* model (none is an integer index) is the order of first assignment.      *)
(* status is the property res.status: StatusMethod while it is the method *)
(* of the class, the number assigned once an assignment has replaced it.   *)
(***************************************************************************)
\* stands for the method status of class Response, which is no number
StatusMethod == 0

NewResponse(sock) ==
  [statusCode |-> 200, version |-> "HTTP/1.1", headers |-> <<>>,
   sock |-> sock, body |-> "", status |-> StatusMethod]

\* 'name' in this.headers
HasHeader(res, name) == \E i \in 1..Len(res.headers) : res.headers[i][1] = name

\* a slip: an assignment to an existing header moves it to the end
HeadersAssign_MoveToEnd(headers, name, value) ==
  Append(SelectSeq(headers, LAMBDA h : h[1] # name), <<name, value>>)

\* this.headers[name] = value
HeadersAssign(headers, name, value) ==
  IF \E i \in 1..Len(headers) : headers[i][1] = name
  THEN [i \in 1..Len(headers) |->
          IF headers[i][1] = name THEN <<name, value>> ELSE headers[i]]
  ELSE Append(headers, <<name, value>>)

\* Response.set
ResSet(res, name, value) ==
  [res EXCEPT !.headers = HeadersAssign(@, name, value)]

\* a slip: a code that the status table lacks is not stored
ResStatus_Validated(res, statusCode) ==
  IF statusCode \in {200, 301, 404, 500}
  THEN [res EXCEPT !.statusCode = statusCode]
  ELSE res

\* Response.status
ResStatus(res, statusCode) == [res EXCEPT !.statusCode = statusCode]

\* HTTP_STATUS_CODES[code] as Array.prototype.join prints it: undefined is ""
ReasonText(statusCode) ==
  IF statusCode \in DOMAIN HTTP_STATUS_CODES THEN HTTP_STATUS_CODES[statusCode] ELSE ""

\* Response.statusLineToString
statusLineToString(res) ==
  res.version \o " " \o ToString(res.statusCode) \o " " \o ReasonText(res.statusCode)
    \o "\r\n"

RECURSIVE JoinLines(_)
JoinLines(lines) ==
  IF Len(lines) = 0 THEN ""
  ELSE IF Len(lines) = 1 THEN lines[1]
  ELSE lines[1] \o "\r\n" \o JoinLines(Tail(lines))

\* Response.headersToString
headersToString(res) ==
  JoinLines([i \in 1..Len(res.headers) |->
               res.headers[i][1] \o ": " \o res.headers[i][2]]) \o "\r\n"

\* a slip: the test is on the value, and an empty Content-Type is replaced
SendDefault_Truthy(res) ==
  IF \E i \in 1..Len(res.headers) :
       res.headers[i][1] = "Content-Type" /\ res.headers[i][2] # ""
  THEN res
  ELSE ResSet(res, "Content-Type", "text/html")

\* Response.send, first statement: the default Content-Type
SendDefault(res) ==
  IF ~HasHeader(res, "Content-Type") THEN ResSet(res, "Content-Type", "text/html")
  ELSE res

\* a slip: the 301 branch leaves out the blank line
SingleWrite_NoBlankLine(res, body) ==
  <<statusLineToString(res) \o headersToString(res) \o body>>

\* Response.send, the 301 branch: one write
SingleWrite(res, body) ==
  <<statusLineToString(res) \o headersToString(res) \o "\r\n" \o body>>

\* Response.send, the other branch: four writes
MultiWrite(res, body) ==
  <<statusLineToString(res), headersToString(res), "\r\n", body>>

\* the arguments of the calls of this.sock.write that send(body) makes
SendWrites(res, body) ==
  LET r == SendDefault(res)
  IN  IF r.statusCode = 301 THEN SingleWrite(r, body) ELSE MultiWrite(r, body)

\* a slip: the socket is ended before the writes
SendSock_EndFirst(res, s, body) == SockWriteAll(SockEnd(s), SendWrites(res, body))

\* the socket after send(body): the writes, then Response.end
SendSock(res, s, body) == SockEnd(SockWriteAll(s, SendWrites(res, body)))

(***************************************************************************)
(* The MIME table, path.extname, getExtension and getMIMEType.             *)
(***************************************************************************)
MIME_TYPES ==
  (<<"j","p","g">> :> "image/jpeg") @@ (<<"j","p","e","g">> :> "image/jpeg") @@
  (<<"p","n","g">> :> "image/png") @@ (<<"h","t","m","l">> :> "text/html") @@
  (<<"c","s","s">> :> "text/css") @@ (<<"t","x","t">> :> "text/plain")

\* s without its trailing slashes
RECURSIVE StripTrailingSlashes(_)
StripTrailingSlashes(s) ==
  IF endsWith(s, "/") THEN StripTrailingSlashes(SubSeq(s, 1, Len(s) - 1)) ELSE s

\* path.extname: from the last "." of the last component, "" when that
\* component has no "." or only a leading one, or is ".."
extname(fileName) ==
  LET t    == StripTrailingSlashes(fileName)
      base == SubSeq(t, LastIndexOf(t, "/") + 1, Len(t))
      d    == LastIndexOf(base, ".")
  IN  IF d <= 1 \/ base = <<".", ".">> THEN <<>> ELSE SubSeq(base, d, Len(base))

getExtension(fileName) ==
  LET e == toLowerCase(extname(fileName))
  IN  IF Len(e) = 0 THEN e ELSE Tail(e)

getMIMEType(fileName) ==
  IF getExtension(fileName) \in DOMAIN MIME_TYPES
  THEN MIME_TYPES[getExtension(fileName)]
  ELSE ""

(***************************************************************************)
(* path.posix.join of two arguments (Node's lib/path.js): the non-empty    *)
(* arguments joined by "/", then normalized.                               *)
(***************************************************************************)
\* normalizeString: "", "." and ".." components resolved
RECURSIVE posixNormalizeString(_, _, _)
posixNormalizeString(segs, allowAboveRoot, acc) ==
  IF Len(segs) = 0 THEN acc
  ELSE LET seg == Head(segs)
       IN  IF seg = <<>> \/ seg = <<".">>
           THEN posixNormalizeString(Tail(segs), allowAboveRoot, acc)
           ELSE IF seg = <<".", ".">>
           THEN IF Len(acc) > 0 /\ acc[Len(acc)] # <<".", ".">>
                THEN posixNormalizeString(Tail(segs), allowAboveRoot,
                                          SubSeq(acc, 1, Len(acc) - 1))
                ELSE posixNormalizeString(Tail(segs), allowAboveRoot,
                                          IF allowAboveRoot THEN Append(acc, seg) ELSE acc)
           ELSE posixNormalizeString(Tail(segs), allowAboveRoot, Append(acc, seg))

posixNormalize(path) ==
  IF Len(path) = 0 THEN <<".">>
  ELSE LET isAbsolute == startsWith(path, "/")
           trailing   == endsWith(path, "/")
           p == join(posixNormalizeString(split(path, "/"), ~isAbsolute, <<>>), "/")
       IN  IF Len(p) = 0
           THEN (IF isAbsolute THEN <<"/">> ELSE IF trailing THEN <<".", "/">> ELSE <<".">>)
           ELSE (IF isAbsolute THEN <<"/">> ELSE <<>>) \o p
                  \o (IF trailing THEN <<"/">> ELSE <<>>)

\* path.posix.join(a, b) for two strings
posixJoin(a, b) ==
  IF Len(a) = 0 /\ Len(b) = 0 THEN <<".">>
  ELSE IF Len(a) = 0 THEN posixNormalize(b)
  ELSE IF Len(b) = 0 THEN posixNormalize(a)
  ELSE posixNormalize(a \o <<"/">> \o b)

(***************************************************************************)
(* class Request: the chunk split at spaces.                               *)
(***************************************************************************)
Request(s) ==
  LET parts == split(s, " ")
  IN  [method |-> parts[1],
       path   |-> IF Len(parts) >= 2 THEN parts[2] ELSE Undefined,
       others |-> SubSeq(parts, 3, Len(parts))]

(***************************************************************************)
(* State.                                                                  *)
(***************************************************************************)
VARIABLES
  npArg,    \* a request path given to normalizePath (SpecKey: a registered
            \* path, a request for a variant of it and the request's method)
  npOut,    \* the results of normalizePath so far: of npArg, then of the result
            \* (SpecKey: the normalized path and the key of each of the two)
  npStep,   \* how many times normalizePath has been applied
  rRes,     \* a Response on its own
  rSock,    \* the socket that Response was constructed with
  rOps,     \* the calls made on rRes so far, in order
  rWrote,   \* for each send call on rRes, the arguments of its write calls
  routes,     \* App.routes: route key -> callback
  middleware, \* App.middleware: Null, or the static middleware of a base path
  listening,  \* whether listen has been called
  getLog,     \* the get calls so far: <<path, callback>>, in order
  useLog,     \* the use calls so far: the middleware given, in order
  socks,      \* the sockets of the accepted connections
  reqs,       \* one record for each data chunk received, in order of arrival
  crashed     \* whether an exception nobody catches has ended the process

npVars == <<npArg, npOut, npStep>>
rVars == <<rRes, rSock, rOps, rWrote>>
appVars == <<routes, middleware, listening, getLog, useLog, socks, reqs, crashed>>
vars == <<npArg, npOut, npStep, rRes, rSock, rOps, rWrote,
          routes, middleware, listening, getLog, useLog, socks, reqs, crashed>>

\* the value null
Null == <<"null">>

\* the sockets of the model, numbered in the order in which the
\* connections deliver their first chunk
Socks == {1, 2}

\* the state of the parts a specification does not use
NormIdle == npArg = <<>> /\ npOut = <<>> /\ npStep = 0
RespIdle ==
  /\ rRes = NewResponse(0)
  /\ rSock = NewSocket
  /\ rOps = <<>>
  /\ rWrote = <<>>
AppIdle ==
  /\ routes = <<>>
  /\ middleware = Null
  /\ listening = FALSE
  /\ getLog = <<>>
  /\ useLog = <<>>
  /\ socks = [s \in Socks |-> NewSocket]
  /\ reqs = <<>>
  /\ crashed = FALSE

(***************************************************************************)
(* normalizePath on its own: every path over PathChars up to MaxPathLen.   *)
(***************************************************************************)
PathChars == {"/", "a", "B", ".", "?", "#"}

RECURSIVE PathsOfLen(_)
PathsOfLen(n) ==
  IF n = 0 THEN {<<>>}
  ELSE {Append(p, c) : p \in PathsOfLen(n - 1), c \in PathChars}

AllPaths == UNION {PathsOfLen(n) : n \in 0..MaxPathLen}

NormInit ==
  /\ npArg \in AllPaths
  /\ npOut = <<>>
  /\ npStep = 0
  /\ RespIdle
  /\ AppIdle

\* normalizePath(npArg)
Normalize ==
  /\ npStep = 0
  /\ npOut' = <<normalizePath(npArg)>>
  /\ npStep' = 1
  /\ UNCHANGED <<npArg, rVars, appVars>>

\* normalizePath of the previous result
Renormalize ==
  /\ npStep = 1
  /\ npOut' = Append(npOut, normalizePath(npOut[1]))
  /\ npStep' = 2
  /\ UNCHANGED <<npArg, rVars, appVars>>

NormNext == Normalize \/ Renormalize

SpecNorm == NormInit /\ [][NormNext]_vars

(***************************************************************************)
(* createRouteKey on its own: the key get builds for a path without query  *)
(* and fragment, and the key processRoutes builds for a request for that   *)
(* path with a query or fragment added, or in another case, with or        *)
(* without one more trailing slash.                                        *)
(***************************************************************************)
PlainChars == PathChars \ {"?", "#"}

RECURSIVE PlainPathsOfLen(_)
PlainPathsOfLen(n) ==
  IF n = 0 THEN {<<>>}
  ELSE {Append(p, c) : p \in PlainPathsOfLen(n - 1), c \in PlainChars}

PlainPaths == UNION {PlainPathsOfLen(n) : n \in 0..MaxPathLen}

\* the query strings and fragments: "?" or "#", then any characters
Suffixes ==
  {<<c>> \o t : c \in {"?", "#"}, t \in UNION {PathsOfLen(n) : n \in 0..MaxSuffixTail}}

\* the spellings of a path that differ from it in the case of letters only
RECURSIVE CaseVariants(_)
CaseVariants(p) ==
  IF Len(p) = 0 THEN {<<>>}
  ELSE {<<c>> \o r : c \in {toLowerChar(Head(p)), toUpperChar(Head(p))},
                     r \in CaseVariants(Tail(p))}

\* the requests that are variants of path p, each with its kind
VariantsOf(p) ==
  {[kind |-> "suffix", path |-> p \o x] : x \in Suffixes}
    \cup {[kind |-> "case", path |-> q] : q \in CaseVariants(p)}
    \cup {[kind |-> "slash", path |-> Append(q, "/")] : q \in CaseVariants(p)}

\* the spellings of the method of a request
KeyMethods == { <<"G","E","T">>, <<"g","e","t">>, <<"G","e","t">> }

KeyInit ==
  /\ \E p \in PlainPaths : \E v \in VariantsOf(p) : \E m \in KeyMethods :
       npArg = [path |-> p, kind |-> v.kind, request |-> v.path, method |-> m]
  /\ npOut = <<>>
  /\ npStep = 0
  /\ RespIdle
  /\ AppIdle

\* get(path, callback): the key of the route
KeyOfRoute ==
  /\ npStep = 0
  /\ npOut' = << [norm |-> normalizePath(npArg.path),
                  key  |-> createRouteKey(<<"G","E","T">>, npArg.path)] >>
  /\ npStep' = 1
  /\ UNCHANGED <<npArg, rVars, appVars>>

\* processRoutes(req, res): the key of the request
KeyOfRequest ==
  /\ npStep = 1
  /\ npOut' = Append(npOut, [norm |-> normalizePath(npArg.request),
                             key  |-> createRouteKey(npArg.method, npArg.request)])
  /\ npStep' = 2
  /\ UNCHANGED <<npArg, rVars, appVars>>

KeyNext == KeyOfRoute \/ KeyOfRequest

SpecKey == KeyInit /\ [][KeyNext]_vars

(***************************************************************************)
(* A Response on its own: any calls of set, status and send, in any order. *)
(***************************************************************************)
HeaderInputs ==
  { <<"X-Test", "1">>, <<"X-Test", "2">>, <<"Location", "/gallery">>,
    <<"Content-Type", "text/plain">>, <<"Content-Type", "">> }

StatusInputs == {200, 301, 404, 999}

BodyInputs == {"hello", "Redirecting"}

RespInit ==
  /\ NormIdle
  /\ AppIdle
  /\ rRes = NewResponse(0)
  /\ rSock = NewSocket
  /\ rOps = <<>>
  /\ rWrote = <<>>

\* res.set(name, value)
RSet ==
  \E h \in HeaderInputs :
    /\ Len(rOps) < MaxOps
    /\ rRes' = ResSet(rRes, h[1], h[2])
    /\ rOps' = Append(rOps, <<"set", h[1], h[2]>>)
    /\ UNCHANGED <<rSock, rWrote, npVars, appVars>>

\* res.status(code)
RStatus ==
  \E c \in StatusInputs :
    /\ Len(rOps) < MaxOps
    /\ rRes' = ResStatus(rRes, c)
    /\ rOps' = Append(rOps, <<"status", c>>)
    /\ UNCHANGED <<rSock, rWrote, npVars, appVars>>

\* res.send(body)
RSend ==
  \E b \in BodyInputs :
    /\ Len(rOps) < MaxOps
    /\ rRes' = SendDefault(rRes)
    /\ rSock' = SendSock(rRes, rSock, b)
    /\ rWrote' = Append(rWrote, SendWrites(rRes, b))
    /\ rOps' = Append(rOps, <<"send", b>>)
    /\ UNCHANGED <<npVars, appVars>>

RespNext == RSet \/ RStatus \/ RSend

SpecResp == RespInit /\ [][RespNext]_vars

(***************************************************************************)
(* The server: an App, its callers (app.js) and its connections.           *)
(***************************************************************************)
\* the route callbacks of app.js: the headers each sets, the status it
\* sets (0: none) and the body it sends
Callbacks == {"animal1", "animal2", "home", "pics"}

CallbackSets(cb) ==
  IF cb = "home" THEN << <<"Content-Type", "text/html">> >>
  ELSE IF cb = "pics" THEN << <<"Location", "/gallery">> >>
  ELSE <<>>

CallbackStatus(cb) == IF cb = "pics" THEN 301 ELSE 0

CallbackBody(cb) ==
  IF cb = "animal1" THEN "animal1.jpg"
  ELSE IF cb = "animal2" THEN "animal2.jpg"
  ELSE IF cb = "home" THEN "<!DOCTYPE html>"
  ELSE "Redirecting"

\* the registrations the callers may make
GetInputs ==
  { << <<"/","F","o","o">>, "animal1" >>,
    << <<"/","f","o","o","/">>, "animal2" >>,
    << <<"/">>, "home" >> }

\* the base directories the callers may give to serveStatic
BasePaths == { <<"/","p">>, <<"/","q">> }

\* the files on disk and their bytes
Files ==
  (<<"/","p","/","a",".","t","x","t">> :> "bytes of /p/a.txt") @@
  (<<"/","q","/","a",".","t","x","t">> :> "bytes of /q/a.txt") @@
  (<<"/","p","/","f","o","o">> :> "bytes of /p/foo") @@
  (<<"/","s",".","t","x","t">> :> "bytes of /s.txt")

\* the data chunks a connection may deliver
Chunks ==
  { <<>>,
    <<"G","E","T">>,
    <<"g","e","t"," ","/","F","O","O","/"," ","H","T","T","P","/","1",".","1">>,
    <<"G","E","T"," ","/","f","o","o">>,
    <<"G","E","T"," ","/","a",".","t","x","t"," ","H","T","T","P","/","1",".","1">>,
    <<"P","O","S","T"," ","/","f","o","o">> }

AppInit ==
  /\ NormIdle
  /\ RespIdle
  /\ AppIdle

\* the record of a data chunk: its Request and Response, the calls made
\* while handling it (log), the arguments of the write calls of its
\* Response (wrote), and whether its readFile is in flight
NewRecord(sock, chunk) ==
  [sock |-> sock, req |-> Request(chunk), res |-> NewResponse(sock),
   log |-> <<>>, wrote |-> <<>>, pending |-> FALSE, filePath |-> <<>>,
   nUses |-> Len(useLog)]

\* res.send(body) within the handling of a chunk: the record and the socket
DoSend(rec, s, body) ==
  [rec |-> [rec EXCEPT !.res = SendDefault(@),
                       !.wrote = @ \o SendWrites(rec.res, body),
                       !.log = Append(@, <<"send", body>>)],
   sock |-> SendSock(rec.res, s, body)]

RECURSIVE ResSetAll(_, _)
ResSetAll(res, hs) ==
  IF Len(hs) = 0 THEN res ELSE ResSetAll(ResSet(res, Head(hs)[1], Head(hs)[2]), Tail(hs))

\* a route callback of app.js, called with (req, res)
RunCallback(cb, rec, s) ==
  LET r1 == ResSetAll(rec.res, CallbackSets(cb))
      r2 == IF CallbackStatus(cb) = 0 THEN r1 ELSE ResStatus(r1, CallbackStatus(cb))
  IN  DoSend([rec EXCEPT !.res = r2, !.log = Append(@, <<"callback", cb>>)],
             s, CallbackBody(cb))

\* the miss branch of App.processRoutes: res.status = 404 replaces the
\* property status and leaves statusCode alone
NotFound(rec, s) ==
  DoSend([rec EXCEPT !.res.status = 404, !.log = Append(@, <<"notFound">>)],
         s, "Page not found")

\* App.processRoutes
processRoutes(rec, s) ==
  LET key == createRouteKey(rec.req.method, rec.req.path)
      r   == [rec EXCEPT !.log = Append(@, <<"processRoutes", key, Len(getLog)>>)]
  IN  IF key \in DOMAIN routes THEN RunCallback(routes[key], r, s) ELSE NotFound(r, s)

\* the middleware serveStatic(basePath) returns, up to its readFile call;
\* path.posix.join throws a TypeError when req.path is not a string
serveStaticCall(basePath, rec) ==
  LET r == [rec EXCEPT !.log = Append(@, <<"middleware", basePath>>)]
  IN  IF rec.req.path = Undefined
      THEN [r EXCEPT !.log = Append(@, <<"throw", "ERR_INVALID_ARG_TYPE">>)]
      ELSE LET filePath == posixJoin(basePath, rec.req.path)
           IN  [r EXCEPT !.filePath = filePath, !.pending = TRUE,
                         !.log = Append(@, <<"readFile", filePath>>)]

\* a slip: filePath is one variable shared by all requests, and the
\* callback reads the path of the latest request
serveStaticCallback_SharedPath(rec, s) ==
  LET r  == [rec EXCEPT !.pending = FALSE]
      fp == reqs[Len(reqs)].filePath
  IN  IF fp \notin DOMAIN Files
      THEN processRoutes([r EXCEPT !.log = Append(@, <<"next">>)], s)
      ELSE DoSend([r EXCEPT !.res = ResSet(@, "Content-Type", getMIMEType(fp))],
                  s, Files[fp])

\* the callback serveStatic gives to fs.readFile
serveStaticCallback(rec, s) ==
  LET r == [rec EXCEPT !.pending = FALSE]
  IN  IF rec.filePath \notin DOMAIN Files
      THEN processRoutes([r EXCEPT !.log = Append(@, <<"next">>)], s)
      ELSE DoSend([r EXCEPT !.res = ResSet(@, "Content-Type", getMIMEType(rec.filePath))],
                  s, Files[rec.filePath])

\* whether the handling threw, or wrote to a socket after its end
Threw(rec) == Len(rec.log) > 0 /\ rec.log[Len(rec.log)][1] = "throw"

\* a slip: the table is replaced by one that holds the new key alone
RoutesAssign_Reset(rs, key, callback) == [k \in {key} |-> callback]

\* a slip: a key already in the table keeps its first callback
RoutesAssign_KeepFirst(rs, key, callback) ==
  [k \in DOMAIN rs \cup {key} |-> IF k \in DOMAIN rs THEN rs[k] ELSE callback]

\* this.routes[key] = callback
RoutesAssign(rs, key, callback) ==
  [k \in DOMAIN rs \cup {key} |-> IF k = key THEN callback ELSE rs[k]]

\* App.get
Get(most) ==
  \E g \in GetInputs :
    /\ ~crashed
    /\ Len(getLog) < most
    /\ routes' = RoutesAssign(routes, createRouteKey(<<"G","E","T">>, g[1]), g[2])
    /\ getLog' = Append(getLog, g)
    /\ UNCHANGED <<middleware, listening, useLog, socks, reqs, crashed, npVars, rVars>>

\* a slip: a middleware already in the slot stays
MiddlewareAssign_KeepFirst(old, cb) == IF old = Null THEN cb ELSE old

\* this.middleware = cb
MiddlewareAssign(old, cb) == cb

\* App.use, given serveStatic(basePath)
Use(most) ==
  \E b \in BasePaths :
    /\ ~crashed
    /\ Len(useLog) < most
    /\ middleware' = MiddlewareAssign(middleware, b)
    /\ useLog' = Append(useLog, b)
    /\ UNCHANGED <<routes, listening, getLog, socks, reqs, crashed, npVars, rVars>>

\* App.listen
Listen ==
  /\ ~crashed
  /\ ~listening
  /\ listening' = TRUE
  /\ UNCHANGED <<routes, middleware, getLog, useLog, socks, reqs, crashed, npVars, rVars>>

\* App.handleRequest, called for a data chunk of a connection
HandleRequest(most) ==
  \E sock \in Socks, chunk \in Chunks :
    /\ ~crashed
    /\ listening
    /\ Len(reqs) < most
    /\ sock = 1 \/ \E i \in 1..Len(reqs) : reqs[i].sock = sock - 1
    /\ LET rec == NewRecord(sock, chunk)
       IN  IF middleware # Null
           THEN LET r == serveStaticCall(middleware, rec)
                IN  /\ reqs' = Append(reqs, r)
                    /\ crashed' = Threw(r)
                    /\ UNCHANGED socks
           ELSE LET out == processRoutes(rec, socks[sock])
                IN  /\ reqs' = Append(reqs, out.rec)
                    /\ socks' = [socks EXCEPT ![sock] = out.sock]
                    /\ crashed' = out.sock.err
    /\ UNCHANGED <<routes, middleware, listening, getLog, useLog, npVars, rVars>>

\* the completion of a readFile that the static middleware started
ReadFileDone ==
  \E i \in 1..Len(reqs) :
    /\ ~crashed
    /\ reqs[i].pending
    /\ LET out == serveStaticCallback(reqs[i], socks[reqs[i].sock])
       IN  /\ reqs' = [reqs EXCEPT ![i] = out.rec]
           /\ socks' = [socks EXCEPT ![reqs[i].sock] = out.sock]
           /\ crashed' = out.sock.err
    /\ UNCHANGED <<routes, middleware, listening, getLog, useLog, npVars, rVars>>

\* the server, with at most so many get calls, use calls and chunks
NextWithin(gets, uses, chunks) ==
  Get(gets) \/ Use(uses) \/ Listen \/ HandleRequest(chunks) \/ ReadFileDone

Next == NextWithin(MaxGets, MaxUses, MaxChunks)

Spec == AppInit /\ [][Next]_vars

\* the server with most of its calls spent on route registration
RouteNext == NextWithin(RouteGets, RouteUses, RouteChunks)

SpecRoute == AppInit /\ [][RouteNext]_vars

\* the server with most of its calls spent on the middleware slot
SlotNext == NextWithin(SlotGets, SlotUses, SlotChunks)

SpecSlot == AppInit /\ [][SlotNext]_vars

\* the registrations of a setup like that of app.js, made before anything
\* else, and the route table they leave
SetupGets == << << <<"/","F","o","o">>, "animal1" >>, << <<"/">>, "home" >> >>

RECURSIVE RoutesAfter(_)
RoutesAfter(gets) ==
  IF Len(gets) = 0 THEN <<>>
  ELSE LET g == gets[Len(gets)]
       IN  RoutesAssign(RoutesAfter(SubSeq(gets, 1, Len(gets) - 1)),
                        createRouteKey(<<"G","E","T">>, g[1]), g[2])

\* the server after that setup: use, listen, and chunks on its connections
FlightInit ==
  /\ NormIdle
  /\ RespIdle
  /\ routes = RoutesAfter(SetupGets)
  /\ getLog = SetupGets
  /\ middleware = Null
  /\ listening = FALSE
  /\ useLog = <<>>
  /\ socks = [s \in Socks |-> NewSocket]
  /\ reqs = <<>>
  /\ crashed = FALSE

FlightNext ==
  Use(FlightUses) \/ Listen \/ HandleRequest(FlightChunks) \/ ReadFileDone

SpecFlight == FlightInit /\ [][FlightNext]_vars

(***************************************************************************)
(* The static middleware's file path on its own: a chunk "GET <raw path>   *)
(* HTTP/1.1" for every raw path over RawChars up to MaxRawLen, parsed by   *)
(* class Request, then joined to the base path as serveStatic joins it.    *)
(***************************************************************************)
RawChars == {"/", ".", "a"}

RECURSIVE RawPathsOfLen(_)
RawPathsOfLen(n) ==
  IF n = 0 THEN {<<>>}
  ELSE {Append(p, c) : p \in RawPathsOfLen(n - 1), c \in RawChars}

RawPaths == UNION {RawPathsOfLen(n) : n \in 1..MaxRawLen}

StaticInit ==
  /\ \E b \in BasePaths : \E p \in RawPaths :
       npArg = [base  |-> b,
                chunk |-> <<"G","E","T"," ">> \o p \o <<" ","H","T","T","P","/","1",".","1">>]
  /\ npOut = <<>>
  /\ npStep = 0
  /\ RespIdle
  /\ AppIdle

\* new Request(binaryData + '')
StaticRequest ==
  /\ npStep = 0
  /\ npOut' = <<Request(npArg.chunk)>>
  /\ npStep' = 1
  /\ UNCHANGED <<npArg, rVars, appVars>>

\* the middleware: filePath, and whether fs.readFile finds a file there
StaticRead ==
  /\ npStep = 1
  /\ LET filePath == posixJoin(npArg.base, npOut[1].path)
     IN  npOut' = Append(npOut, [filePath |-> filePath,
                                 found    |-> filePath \in DOMAIN Files])
  /\ npStep' = 2
  /\ UNCHANGED <<npArg, rVars, appVars>>

StaticNext == StaticRequest \/ StaticRead

SpecStatic == StaticInit /\ [][StaticNext]_vars

(***************************************************************************)
(* Properties.                                                             *)
(***************************************************************************)
RECURSIVE Flatten(_)
\* the concatenation of a sequence of strings
Flatten(ws) == IF Len(ws) = 0 THEN "" ELSE Head(ws) \o Flatten(Tail(ws))

Last(q) == q[Len(q)]

\* C3: path normalization is idempotent: normalizing the result of
\* normalizePath again gives the same path, for every request path,
\* paths ending in several slashes and the root path included.
C3_Idempotent == npStep = 2 => npOut[2] = npOut[1]

\* C3, the paths that break it: the result changes under a second
\* normalization only when the URL's path ends in two or more slashes.
C3_OnlyDoubleSlash ==
  (npStep = 2 /\ npOut[2] # npOut[1]) => endsWith(npOut[1], "/")

\* the calls made on rRes up to and including call k
OpsUpTo(k) == SubSeq(rOps, 1, k)

\* the status code a reader of the calls expects: the last status call, or 200
ExpectedCode(ops) ==
  LET ks == {i \in 1..Len(ops) : ops[i][1] = "status"}
  IN  IF ks = {} THEN 200 ELSE ops[CHOOSE i \in ks : \A j \in ks : j <= i][2]

\* the header names a reader of the calls expects, in insertion order: a
\* name enters at its first set call, Content-Type at the first send if no
\* set call named it before
RECURSIVE ExpectedNames(_, _)
ExpectedNames(ops, acc) ==
  IF Len(ops) = 0 THEN acc
  ELSE LET op == Head(ops)
           n  == IF op[1] = "set" THEN op[2]
                 ELSE IF op[1] = "send" THEN "Content-Type" ELSE ""
           has == \E i \in 1..Len(acc) : acc[i] = n
       IN  ExpectedNames(Tail(ops), IF n = "" \/ has THEN acc ELSE Append(acc, n))

\* the value a reader expects for header n: the last set call of n, or the
\* default text/html
ExpectedValue(ops, n) ==
  LET ks == {i \in 1..Len(ops) : ops[i][1] = "set" /\ ops[i][2] = n}
  IN  IF ks = {} THEN "text/html" ELSE ops[CHOOSE i \in ks : \A j \in ks : j <= i][3]

RECURSIVE ExpectedHeaderLines(_, _)
ExpectedHeaderLines(ops, names) ==
  IF Len(names) = 0 THEN ""
  ELSE Head(names) \o ": " \o ExpectedValue(ops, Head(names)) \o "\r\n"
         \o ExpectedHeaderLines(ops, Tail(names))

\* what the send that is call k is expected to put on the wire
ExpectedWire(k) ==
  LET ops  == OpsUpTo(k)
      code == ExpectedCode(ops)
  IN  "HTTP/1.1" \o " " \o ToString(code) \o " "
        \o (IF code \in DOMAIN HTTP_STATUS_CODES THEN HTTP_STATUS_CODES[code] ELSE "")
        \o "\r\n" \o ExpectedHeaderLines(ops, ExpectedNames(ops, <<>>))
        \o "\r\n" \o ops[k][2]

\* the calls that are sends, and the rank of send k among them
SendCalls == {k \in 1..Len(rOps) : rOps[k][1] = "send"}
SendRank(k) == Cardinality({j \in SendCalls : j <= k})

\* C5: what send(body) writes, concatenated, is the status line
\* "<version> <code> <reason>\r\n", each header as "name: value\r\n" in
\* insertion order, "\r\n" and the body; set('X-Test','1'), status(200),
\* send('hello') gives the byte sequence of the specification's example.
C5_SendWire ==
  /\ \A k \in SendCalls : Flatten(rWrote[SendRank(k)]) = ExpectedWire(k)
  /\ rOps = << <<"set", "X-Test", "1">>, <<"status", 200>>, <<"send", "hello">> >>
       => Flatten(rSock.writes)
            = "HTTP/1.1 200 OK\r\nX-Test: 1\r\nContent-Type: text/html\r\n\r\nhello"

\* C5, its case: a header set twice around another one, then sent
C5_Witness ==
  /\ rOps = << <<"set", "X-Test", "1">>, <<"set", "Location", "/gallery">>,
               <<"set", "X-Test", "2">>, <<"send", "hello">> >>
  /\ Flatten(rSock.writes)
       = "HTTP/1.1 200 OK\r\nX-Test: 2\r\nLocation: /gallery\r\nContent-Type: text/html\r\n\r\nhello"

\* C6: with status code 301 send(body) makes one write, whose content is
\* the concatenation of the four writes the other branch makes for the
\* same version, headers and body; any other code makes those four writes.
C6_RedirectSingleWrite ==
  (Len(rOps) > 0 /\ Last(rOps)[1] = "send") =>
    LET w    == Last(rWrote)
        four == MultiWrite(rRes, Last(rOps)[2])
    IN  /\ Flatten(w) = Flatten(four)
        /\ rRes.statusCode = 301 => Len(w) = 1
        /\ rRes.statusCode # 301 => w = four

\* C6, its case: the redirect of the article, written to the socket at once
C6_Witness ==
  /\ rOps = << <<"status", 301>>, <<"set", "Location", "/gallery">>,
               <<"send", "Redirecting">> >>
  /\ rSock.writes = << "HTTP/1.1 301 Moved Permanently\r\nLocation: /gallery\r\n"
                         \o "Content-Type: text/html\r\n\r\nRedirecting" >>
  /\ rSock.ends = 1

(***************************************************************************)
(* Properties of the server.                                               *)
(***************************************************************************)
\* the positions of the calls of one kind in a record's log
EventsOf(rec, kind) == {k \in 1..Len(rec.log) : rec.log[k][1] = kind}

\* the callbacks invoked while handling a chunk, in order
CallbacksOf(rec) ==
  LET cs == SelectSeq(rec.log, LAMBDA e : e[1] = "callback")
  IN  [k \in 1..Len(cs) |-> cs[k][2]]

\* the paths and the methods that the inputs of the server carry
InputPaths == {g[1] : g \in GetInputs} \cup {Request(c).path : c \in Chunks}
InputMethods == {Request(c).method : c \in Chunks}

\* normalizePath and toUpperCase, tabulated over them
NormOfPath == [p \in InputPaths |-> normalizePath(p)]
UpperOfMethod == [m \in InputMethods |-> toUpperCase(m)]

\* the normalized path of each get call so far
NormOfGets == [j \in 1..Len(getLog) |-> NormOfPath[getLog[j][1]]]

\* whether a request asks, with method GET, for the normalized path np
Asks(rec, np) ==
  /\ UpperOfMethod[rec.req.method] = <<"G","E","T">>
  /\ NormOfPath[rec.req.path] = np

\* the route keys registered by the first n get calls
RegisteredKeys(n) == {createRouteKey(<<"G","E","T">>, getLog[j][1]) : j \in 1..n}

\* the status line and the body among the four writes of a Response
StatusLineOf(rec) == rec.wrote[1]
BodyOf(rec) == rec.wrote[Len(rec.wrote)]

\* C1: a request whose route key is not in the route table gets, from
\* processRoutes, a response with status 404 (the status line carries 404)
\* and the body "Page not found".
C1_Miss404 ==
  \A i \in 1..Len(reqs) :
    \A k \in EventsOf(reqs[i], "processRoutes") :
      reqs[i].log[k][2] \notin RegisteredKeys(reqs[i].log[k][3]) =>
        /\ reqs[i].res.statusCode = 404
        /\ StatusLineOf(reqs[i]) = "HTTP/1.1 404 Not Found\r\n"
        /\ BodyOf(reqs[i]) = "Page not found"

\* C1, what the code does there: the body is "Page not found" and the
\* status line is that of the default code 200.
C1_MissSends200 ==
  \A i \in 1..Len(reqs) :
    \A k \in EventsOf(reqs[i], "processRoutes") :
      reqs[i].log[k][2] \notin RegisteredKeys(reqs[i].log[k][3]) =>
        /\ reqs[i].res.statusCode = 200 /\ reqs[i].res.status = 404
        /\ StatusLineOf(reqs[i]) = "HTTP/1.1 200 OK\r\n"
        /\ BodyOf(reqs[i]) = "Page not found"

\* C2, as stated: for every get(path, callback) made before and every
\* request whose method uppercases to GET and whose path normalizes like
\* the registered path, route dispatch invokes that callback with the
\* request's (req, res) and does not send the 404 response.
C2_EveryRegistrationInvoked ==
  \A norm \in {NormOfGets} :
      \A i \in 1..Len(reqs) :
        \A k \in EventsOf(reqs[i], "processRoutes") :
          \A j \in 1..reqs[i].log[k][3] :
            Asks(reqs[i], norm[j]) =>
              /\ CallbacksOf(reqs[i]) = <<getLog[j][2]>>
              /\ EventsOf(reqs[i], "notFound") = {}

\* C2, amended: the same for every registration that no later get call
\* for the same normalized path has replaced.
C2_StandingRegistrationInvoked ==
  \A norm \in {NormOfGets} :
      \A i \in 1..Len(reqs) :
        \A k \in EventsOf(reqs[i], "processRoutes") :
          \A j \in 1..reqs[i].log[k][3] :
            ( /\ \A m \in (j + 1)..reqs[i].log[k][3] : norm[m] # norm[j]
              /\ Asks(reqs[i], norm[j]) ) =>
              /\ CallbacksOf(reqs[i]) = <<getLog[j][2]>>
              /\ EventsOf(reqs[i], "notFound") = {}
              /\ BodyOf(reqs[i]) = CallbackBody(getLog[j][2])

\* C2, its case: get /FOO/ reaches the callback registered for /Foo
C2_Witness ==
  \E i \in 1..Len(reqs) :
    /\ reqs[i].req.method = <<"g","e","t">>
    /\ reqs[i].req.path = <<"/","F","O","O","/">>
    /\ getLog = << << <<"/","F","o","o">>, "animal1" >> >>
    /\ CallbacksOf(reqs[i]) = <<"animal1">>
    /\ socks[reqs[i].sock].writes
         = <<"HTTP/1.1 200 OK\r\n", "Content-Type: text/html\r\n", "\r\n", "animal1.jpg">>

\* the last of the first n get calls that registers the normalized path
\* of get call j, given the normalized paths of the get calls
LastSame(norm, j, n) ==
  CHOOSE m \in j..n : norm[m] = norm[j] /\ \A x \in (m + 1)..n : norm[x] # norm[j]

\* whether another of the first n get calls registers that normalized path
Collides(norm, j, n) == \E m \in 1..n : m # j /\ norm[m] = norm[j]

\* C4: when several registered paths normalize to the same path, the
\* route table holds one entry for that key, the callback of the last such
\* registration, and a matching request invokes that callback only.
C4_LastRegistrationWins ==
  \A norm \in {NormOfGets}, n \in {Len(getLog)} :
      /\ Cardinality(DOMAIN routes) = Cardinality({norm[j] : j \in 1..n})
      /\ \A j \in 1..n :
           LET key == <<"G","E","T"," ">> \o norm[j]
           IN  key \in DOMAIN routes /\ routes[key] = getLog[LastSame(norm, j, n)][2]
      /\ \A i \in 1..Len(reqs) :
           \A k \in EventsOf(reqs[i], "processRoutes") :
             \A j \in 1..reqs[i].log[k][3] :
               (Collides(norm, j, reqs[i].log[k][3]) /\ Asks(reqs[i], norm[j])) =>
                 CallbacksOf(reqs[i])
                   = <<getLog[LastSame(norm, j, reqs[i].log[k][3])][2]>>

\* C4, its case: /Foo then /foo/ registered, and a matching request
C4_Witness ==
  /\ getLog = << << <<"/","F","o","o">>, "animal1" >>,
                 << <<"/","f","o","o","/">>, "animal2" >> >>
  /\ DOMAIN routes = { <<"G","E","T"," ","/","f","o","o">> }
  /\ \E i \in 1..Len(reqs) :
       /\ reqs[i].req.path = <<"/","f","o","o">>
       /\ CallbacksOf(reqs[i]) = <<"animal2">>
       /\ BodyOf(reqs[i]) = "animal2.jpg"

\* whether a chunk went through the static middleware and its read completed
ReadCompleted(rec) ==
  EventsOf(rec, "readFile") # {} /\ ~rec.pending

\* the value of the header a Response holds under a name
HeaderOf(res, name) ==
  res.headers[CHOOSE h \in 1..Len(res.headers) : res.headers[h][1] = name][2]

\* the static middleware's two outcomes, the status of the miss apart
StaticOutcome(rec) ==
  IF rec.filePath \in DOMAIN Files
  THEN /\ HeaderOf(rec.res, "Content-Type") = getMIMEType(rec.filePath)
       /\ rec.wrote = <<"HTTP/1.1 200 OK\r\n",
                        "Content-Type: " \o getMIMEType(rec.filePath) \o "\r\n",
                        "\r\n", Files[rec.filePath]>>
       /\ EventsOf(rec, "next") = {}
       /\ EventsOf(rec, "processRoutes") = {}
       /\ EventsOf(rec, "callback") = {}
       /\ Cardinality(EventsOf(rec, "send")) = 1
  ELSE /\ Cardinality(EventsOf(rec, "next")) = 1
       /\ Cardinality(EventsOf(rec, "processRoutes")) = 1
       /\ \A k \in EventsOf(rec, "send") : \E n \in EventsOf(rec, "next") : n < k
       /\ \A k \in EventsOf(rec, "processRoutes") : rec.log[k - 1][1] = "next"
       /\ Cardinality(EventsOf(rec, "send")) = 1

\* C7: a request through the static middleware whose read completes ends
\* in exactly one of two ways: on success Content-Type is the MIME type
\* of the file extension ("" if unknown), the file's bytes are the body and
\* next is never called; on failure next is called once, the middleware
\* sends nothing and route dispatch runs, with a 404 if no route matches.
C7_StaticOutcomes ==
  \A i \in 1..Len(reqs) :
    ReadCompleted(reqs[i]) =>
      /\ StaticOutcome(reqs[i])
      /\ \A k \in EventsOf(reqs[i], "processRoutes") :
           reqs[i].log[k][2] \notin RegisteredKeys(reqs[i].log[k][3]) =>
             StatusLineOf(reqs[i]) = "HTTP/1.1 404 Not Found\r\n"

\* C7 without the status of the miss: the two outcomes themselves
C7_OutcomesApartFromStatus ==
  \A i \in 1..Len(reqs) : ReadCompleted(reqs[i]) => StaticOutcome(reqs[i])

\* C8: the App holds at most one middleware, the one of the last use
\* call; a chunk is given to it once, before any route dispatch, and route
\* dispatch runs only when it calls next; with no middleware registered
\* route dispatch runs directly.
C8_OneMiddleware ==
  /\ middleware = IF Len(useLog) = 0 THEN Null ELSE useLog[Len(useLog)]
  /\ \A i \in 1..Len(reqs) :
       LET rec == reqs[i]
       IN  IF rec.nUses = 0
           THEN /\ EventsOf(rec, "middleware") = {}
                /\ EventsOf(rec, "next") = {}
                /\ rec.log[1][1] = "processRoutes"
                /\ Cardinality(EventsOf(rec, "processRoutes")) = 1
           ELSE /\ EventsOf(rec, "middleware") = {1}
                /\ rec.log[1][2] = useLog[rec.nUses]
                /\ Cardinality(EventsOf(rec, "next")) <= 1
                /\ Cardinality(EventsOf(rec, "processRoutes"))
                     = Cardinality(EventsOf(rec, "next"))
                /\ \A k \in EventsOf(rec, "processRoutes") : rec.log[k - 1][1] = "next"

\* C8, its case: two use calls, and a chunk given to the second middleware
\* only, which calls next
C8_Witness ==
  /\ useLog = << <<"/","p">>, <<"/","q">> >>
  /\ \E i \in 1..Len(reqs) :
       /\ reqs[i].nUses = 2
       /\ reqs[i].log[1] = <<"middleware", <<"/","q">> >>
       /\ reqs[i].filePath = <<"/","q","/","f","o","o">>
       /\ EventsOf(reqs[i], "next") # {}
       /\ EventsOf(reqs[i], "processRoutes") # {}

\* C9: no socket is ever bound to two Responses, so no Response writes to
\* or ends a socket that another Response has written to or ended.
C9_SocketOwnedByOneResponse ==
  /\ \A i, j \in 1..Len(reqs) : i # j => reqs[i].res.sock # reqs[j].res.sock
  /\ \A s \in Socks : socks[s].ends <= 1 /\ ~socks[s].err

\* whether the chunk of a record had fewer than two tokens
NoPath(rec) == rec.req.path = Undefined

\* C10: a chunk that is empty or has no path is tolerated: handling it,
\* with or without the static middleware, raises no exception and ends in
\* route-key construction followed by the 404 response.
C10_ShortChunkTolerated ==
  \A i \in 1..Len(reqs) :
    NoPath(reqs[i]) =>
      /\ ~Threw(reqs[i])
      /\ ~reqs[i].pending =>
           /\ EventsOf(reqs[i], "processRoutes") # {}
           /\ EventsOf(reqs[i], "notFound") # {}
           /\ BodyOf(reqs[i]) = "Page not found"

\* C10, what the code does without the middleware and without a route for
\* "/": the key is built from the text of undefined and the miss branch runs
C10_NoMiddlewareNoRootRoute ==
  \A i \in 1..Len(reqs) :
    (NoPath(reqs[i]) /\ reqs[i].nUses = 0) =>
      /\ ~Threw(reqs[i])
      /\ reqs[i].log[1][2] = toUpperCase(reqs[i].req.method) \o <<" ">>
      /\ (reqs[i].log[1][2] \notin RegisteredKeys(reqs[i].log[1][3])
            => BodyOf(reqs[i]) = "Page not found")

\* C10, what the code does with the middleware: path.posix.join throws
C10_MiddlewareThrows ==
  \A i \in 1..Len(reqs) :
    (NoPath(reqs[i]) /\ reqs[i].nUses > 0) => Threw(reqs[i]) /\ crashed

\* C11: the route table and the middleware slot are changed only by get
\* and use respectively: a step that handles a request (it changes reqs or
\* a socket) leaves both unchanged; a get call leaves the middleware slot
\* and every other route key unchanged; a use call leaves the route table
\* unchanged.
C11_RegistrationFrame ==
  [][ /\ routes' # routes => Len(getLog') = Len(getLog) + 1
      /\ middleware' # middleware => Len(useLog') = Len(useLog) + 1
      /\ (reqs' # reqs \/ socks' # socks) =>
           (routes' = routes /\ middleware' = middleware)
      /\ getLog' # getLog =>
           LET key == createRouteKey(<<"G","E","T">>, Last(getLog')[1])
           IN  /\ middleware' = middleware
               /\ reqs' = reqs /\ socks' = socks
               /\ DOMAIN routes' = DOMAIN routes \cup {key}
               /\ \A k \in DOMAIN routes \ {key} : routes'[k] = routes[k]
      /\ useLog' # useLog =>
           (routes' = routes /\ reqs' = reqs /\ socks' = socks) ]_vars

\* C11, its case: a table of two keys and a filled slot, after a chunk
\* was dispatched and answered and a get call followed it
C11_Witness ==
  /\ Cardinality(DOMAIN routes) = 2
  /\ middleware # Null
  /\ \E i \in 1..Len(reqs) :
       /\ ~reqs[i].pending
       /\ EventsOf(reqs[i], "send") # {}
       /\ \E k \in EventsOf(reqs[i], "processRoutes") : reqs[i].log[k][3] < Len(getLog)

\* how many times send was invoked on the Response of a chunk
SendsOf(rec) == Cardinality(EventsOf(rec, "send"))

\* C12: for every request chunk exactly one send is invoked on its
\* Response, on every dispatch path (no middleware, the static middleware
\* with a read that succeeds or fails), given that the registered callbacks
\* send once: never two sends, and one send once the handling has run.
C12_ExactlyOneSend ==
  \A i \in 1..Len(reqs) :
    /\ SendsOf(reqs[i]) <= 1
    /\ ~reqs[i].pending => SendsOf(reqs[i]) = 1

\* C12, what the code does: one send on each of the paths the claim
\* lists, and none for a chunk without a path under the static middleware,
\* whose handling throws before any read starts
C12_OneSendUnlessThrown ==
  \A i \in 1..Len(reqs) :
    /\ SendsOf(reqs[i]) <= 1
    /\ (~reqs[i].pending /\ ~Threw(reqs[i])) => SendsOf(reqs[i]) = 1
    /\ Threw(reqs[i]) => (SendsOf(reqs[i]) = 0 /\ NoPath(reqs[i]) /\ reqs[i].nUses > 0)
    /\ reqs[i].pending => SendsOf(reqs[i]) = 0

\* the four parts the send that is call k is expected to write, in order
ExpectedParts(k) ==
  LET ops  == OpsUpTo(k)
      code == ExpectedCode(ops)
  IN  << "HTTP/1.1" \o " " \o ToString(code) \o " "
           \o (IF code \in DOMAIN HTTP_STATUS_CODES THEN HTTP_STATUS_CODES[code] ELSE "")
           \o "\r\n",
         ExpectedHeaderLines(ops, ExpectedNames(ops, <<>>)),
         "\r\n",
         ops[k][2] >>

\* the positions of the end calls made on a socket, and the r-th of them
EndCalls(s) == {j \in 1..Len(s.calls) : s.calls[j] = <<"end">>}
EndCall(s, r) ==
  CHOOSE j \in EndCalls(s) : Cardinality({e \in EndCalls(s) : e <= j}) = r

\* the calls made on a socket after its (r-1)-th end call and before its r-th
CallsBeforeEnd(s, r) ==
  SubSeq(s.calls, (IF r = 1 THEN 0 ELSE EndCall(s, r - 1)) + 1, EndCall(s, r) - 1)

\* C13: send is terminal and ordered: the calls one send makes on the
\* socket are the write of the status line, of the headers, of the blank
\* line and of the body, in this order (with code 301 one write of these
\* four in this order), then one end call and nothing after it; every send
\* ends the connection exactly once.
C13_SendOrdered ==
  /\ Cardinality(EndCalls(rSock)) = Cardinality(SendCalls)
  /\ rSock.ends = Cardinality(SendCalls)
  /\ Len(rSock.calls) > 0 => Last(rSock.calls) = <<"end">>
  /\ \A k \in SendCalls :
       LET parts == ExpectedParts(k)
       IN  CallsBeforeEnd(rSock, SendRank(k))
             = IF ExpectedCode(OpsUpTo(k)) = 301
               THEN << <<"write", parts[1] \o parts[2] \o parts[3] \o parts[4]>> >>
               ELSE [j \in 1..4 |-> <<"write", parts[j]>>]

\* C13, its case: a send of four writes and the end call after them
C13_Witness ==
  /\ rOps = << <<"status", 404>>, <<"send", "hello">> >>
  /\ rSock.calls = << <<"write", "HTTP/1.1 404 Not Found\r\n">>,
                      <<"write", "Content-Type: text/html\r\n">>,
                      <<"write", "\r\n">>,
                      <<"write", "hello">>,
                      <<"end">> >>
  /\ rSock.ends = 1

\* the header lines of a header list, as they go on the wire
RECURSIVE HeaderLines(_)
HeaderLines(hs) ==
  IF Len(hs) = 0 THEN ""
  ELSE Head(hs)[1] \o ": " \o Head(hs)[2] \o "\r\n" \o HeaderLines(Tail(hs))

\* whether a step is a send call on the Response
IsSendStep == Len(rOps') = Len(rOps) + 1 /\ Last(rOps')[1] = "send"

\* C14: every response written by send carries Content-Type: the value
\* set before the send if there is one (the empty string included),
\* text/html otherwise (also the value an earlier send of the same
\* Response has put there); send leaves an existing Content-Type and every
\* other header as they were.
C14_ContentTypeKeptOrDefault ==
  [][ IsSendStep =>
        /\ rRes'.headers =
              IF \E j \in 1..Len(rOps) :
                   \/ rOps[j][1] = "set" /\ rOps[j][2] = "Content-Type"
                   \/ rOps[j][1] = "send"
              THEN rRes.headers
              ELSE Append(rRes.headers, <<"Content-Type", "text/html">>)
        /\ HasHeader(rRes', "Content-Type")
        /\ HeaderOf(rRes', "Content-Type") = ExpectedValue(rOps, "Content-Type")
        /\ Flatten(Last(rWrote')) =
              (ExpectedParts(Len(rOps))[1])' \o HeaderLines(rRes'.headers)
                \o "\r\n" \o Last(rOps')[2] ]_vars

\* C14, its case: an empty Content-Type, set before the send, on the wire
C14_Witness ==
  /\ rOps = << <<"set", "Content-Type", "">>, <<"set", "X-Test", "1">>,
               <<"send", "hello">> >>
  /\ rSock.writes = << "HTTP/1.1 200 OK\r\n", "Content-Type: \r\nX-Test: 1\r\n",
                       "\r\n", "hello" >>

\* C15: normalization discards the query string and the fragment and
\* lowercases the path: for a path p without "?" and "#", a request for p
\* with a suffix that starts with "?" or "#", or for any case variant of p
\* with or without one more trailing slash, in any spelling of GET, has
\* the normalized path and the route key of p.
C15_VariantsShareKey == npStep = 2 => npOut[2] = npOut[1]

\* C15, the variants that break it: only a trailing slash added to a path
\* that ends in a slash already; a query string, a fragment, the case of
\* the path and the case of the method never change the key.
C15_OnlyAddedSlashAfterSlash ==
  (npStep = 2 /\ npOut[2] # npOut[1]) =>
    (npArg.kind = "slash" /\ endsWith(npArg.path, "/"))

\* C15, the converse: a slash added after a slash always changes the key
C15_AddedSlashAfterSlashDiffers ==
  (npStep = 2 /\ npArg.kind = "slash" /\ endsWith(npArg.path, "/")) =>
    npOut[2] # npOut[1]

\* whether a step is a status call on the Response
IsStatusStep == Len(rOps') = Len(rOps) + 1 /\ Last(rOps')[1] = "status"

\* the status line of a code, written out: the codes of the status table
\* with their reason phrase, any other code with an empty one
StatusLineText(code) ==
  IF code = 200 THEN "HTTP/1.1 200 OK\r\n"
  ELSE IF code = 301 THEN "HTTP/1.1 301 Moved Permanently\r\n"
  ELSE IF code = 404 THEN "HTTP/1.1 404 Not Found\r\n"
  ELSE IF code = 500 THEN "HTTP/1.1 500 Internal Server Error\r\n"
  ELSE "HTTP/1.1 " \o ToString(code) \o " \r\n"

\* C16: status(code) stores any code, unvalidated, and gives back the
\* same Response (nothing else of it changes, nothing is written); a send
\* after it completes, with the status line "<version> <code> \r\n" for a
\* code outside the status table and with the reason phrase for a code in
\* it.
C16_StatusAnyCode ==
  [][ /\ IsStatusStep =>
           /\ rRes' = [rRes EXCEPT !.statusCode = Last(rOps')[2]]
           /\ rSock' = rSock
      /\ IsSendStep =>
           LET code == ExpectedCode(rOps)
               body == Last(rOps')[2]
           IN  /\ rRes'.statusCode = code
               /\ Last(rWrote') =
                    IF code = 301
                    THEN << StatusLineText(code) \o HeaderLines(rRes'.headers)
                              \o "\r\n" \o body >>
                    ELSE << StatusLineText(code), HeaderLines(rRes'.headers),
                            "\r\n", body >>
               /\ Last(rSock'.calls) = <<"end">>
               /\ rSock'.ends = rSock.ends + 1 ]_vars

\* C16, its case: a code outside the status table, stored and sent
C16_Witness ==
  /\ rOps = << <<"status", 999>>, <<"send", "hello">> >>
  /\ rRes.statusCode = 999
  /\ rSock.writes = << "HTTP/1.1 999 \r\n", "Content-Type: text/html\r\n",
                       "\r\n", "hello" >>
  /\ rSock.ends = 1

\* whether chunk i has been answered: send was invoked on its Response,
\* which wrote to and ended the socket of its connection
Answered(i) ==
  /\ Len(reqs) >= i
  /\ SendsOf(reqs[i]) >= 1
  /\ socks[reqs[i].sock].ends >= 1

\* whether the read of chunk i is in flight and can still complete (the
\* guard of ReadFileDone for it)
ReadCanComplete(i) == reqs[i].pending /\ ~crashed

\* C17: every received chunk eventually leads to a send on its Response
\* and to the end of its connection, without middleware and, given that
\* every started file read completes, with the static middleware: no
\* chunk is ever left unanswered with no read of it that can still
\* complete (every run that leaves a chunk unanswered for ever ends in
\* such a state, since the completion of a read answers its chunk).
C17_NoChunkLeftUnanswered ==
  \A i \in 1..Len(reqs) : Answered(i) \/ ReadCanComplete(i)

\* C17, what the code does: a chunk is left unanswered only when an
\* exception that nobody catches has ended the process
C17_UnansweredOnlyAfterCrash ==
  \A i \in 1..Len(reqs) : Answered(i) \/ ReadCanComplete(i) \/ crashed

\* C17, the step that completes a read answers the chunk of that read
C17_ReadCompletionAnswers ==
  [][ \A i \in 1..Len(reqs) :
        (reqs[i].pending /\ ~reqs'[i].pending) => Answered(i)' ]_vars

\* C17, the same without middleware: the chunk is answered within the
\* step that receives it
C17_AnsweredAtOnceWithoutMiddleware ==
  \A i \in 1..Len(reqs) : reqs[i].nUses = 0 => Answered(i)

\* the chunks that a connection has delivered
ChunksOn(s) == {i \in 1..Len(reqs) : reqs[i].sock = s}

\* the file that belongs to the path of a chunk's own request, under the
\* middleware in the slot when the chunk arrived
OwnFile(rec) == posixJoin(useLog[rec.nUses], rec.req.path)

\* the registrations, among those made before the dispatch of a chunk,
\* that the chunk's own request asks for
OwnRoutes(rec, norm) ==
  {j \in 1..Len(getLog) :
     /\ \E k \in EventsOf(rec, "processRoutes") : j <= rec.log[k][3]
     /\ Asks(rec, norm[j])}

\* the Content-Type and the body that belong to a chunk's own request: those
\* of its file if the middleware finds it, else those of its route, else
\* those of the miss
OwnOutcome(rec, norm) ==
  IF rec.nUses > 0 /\ OwnFile(rec) \in DOMAIN Files
  THEN [type |-> getMIMEType(OwnFile(rec)), body |-> Files[OwnFile(rec)]]
  ELSE LET js == OwnRoutes(rec, norm)
       IN  IF js = {}
           THEN [type |-> "text/html", body |-> "Page not found"]
           ELSE [type |-> "text/html",
                 body |-> CallbackBody(getLog[CHOOSE j \in js : \A x \in js : x <= j][2])]

\* C18: no cross-talk between requests in flight on several connections,
\* whatever the order in which the reads complete: a connection that
\* delivered one chunk carries the writes of that chunk's Response and no
\* others, a connection that delivered none carries nothing, and the body
\* and Content-Type of each response are those of the file, or route, of
\* its own request's path.
C18_NoCrossTalk ==
  \A norm \in {NormOfGets} :
    /\ \A s \in Socks :
         /\ ChunksOn(s) = {} => socks[s].calls = <<>>
         /\ \A i \in ChunksOn(s) :
              ChunksOn(s) = {i} =>
                /\ reqs[i].res.sock = s
                /\ socks[s].writes = reqs[i].wrote
                /\ socks[s].ends = SendsOf(reqs[i])
    /\ \A i \in 1..Len(reqs) :
         SendsOf(reqs[i]) = 1 =>
           /\ BodyOf(reqs[i]) = OwnOutcome(reqs[i], norm).body
           /\ HeaderOf(reqs[i].res, "Content-Type") = OwnOutcome(reqs[i], norm).type
           /\ reqs[i].wrote[2] =
                "Content-Type: " \o OwnOutcome(reqs[i], norm).type \o "\r\n"

\* C18, its case: two connections with a read in flight each, the second
\* read completes first, and its file goes to the second connection alone
C18_Witness ==
  /\ Len(reqs) = 2
  /\ reqs[1].sock = 1 /\ reqs[2].sock = 2
  /\ reqs[1].filePath = <<"/","p","/","a",".","t","x","t">> /\ reqs[1].pending
  /\ reqs[2].filePath = <<"/","p","/","f","o","o">> /\ ~reqs[2].pending
  /\ socks[1].calls = <<>>
  /\ socks[2].writes = <<"HTTP/1.1 200 OK\r\n", "Content-Type: \r\n", "\r\n",
                         "bytes of /p/foo">>
  /\ socks[2].ends = 1

\* whether a normalized path names the directory dir or something below it
InsideOf(dir, filePath) ==
  \/ filePath = dir
  \/ /\ Len(filePath) > Len(dir)
     /\ SubSeq(filePath, 1, Len(dir) + 1) = dir \o <<"/">>

\* C19: static serving is confined to the base directory: for every
\* request path, paths with ".." segments included, the file path the
\* static middleware reads lies inside the base directory.
C19_ConfinedToBase ==
  npStep = 2 =>
    InsideOf(npArg.base, npOut[2].filePath)

\* C19, what does hold: a request path without a ".." segment is read
\* inside the base directory.
C19_ConfinedWithoutDotDot ==
  npStep = 2 =>
    \/ \E k \in 1..Len(split(npOut[1].path, "/")) :
         split(npOut[1].path, "/")[k] = <<".", ".">>
    \/ InsideOf(npArg.base, npOut[2].filePath)

\* C19, what does hold: a file path outside the base directory is an
\* ancestor of the base directory or something below such an ancestor,
\* reached through as many ".." segments as it climbs.
C19_ReadNeverAboveRoot ==
  npStep = 2 =>
    /\ startsWith(npOut[2].filePath, "/")
    /\ \A k \in 1..Len(split(npOut[2].filePath, "/")) :
         split(npOut[2].filePath, "/")[k] \notin {<<".">>, <<".", ".">>}

====
